---- MODULE Spec2Model ----
(***************************************************************************)
(* Model of main.py: the static CATALOG of automation solutions, the      *)
(* list_solutions handler and the recommend handler with its keyword      *)
(* scoring, descending stable sort and top-3 slice.                       *)
(*                                                                         *)
(* A Python str is a sequence of characters; a character is a one-element *)
(* string ("a"), a non-ASCII character is written by its code point       *)
(* ("U+2192").  An Optional value is << >> for None and << v >> for v.     *)
(***************************************************************************)
EXTENDS Integers, Sequences, FiniteSets, TLC

VARIABLES
  catalog,     \* the module-level list CATALOG (main.py:36)
  listed,      \* the body list_solutions has just returned; << >> otherwise
  phase,       \* "idle" | "listed" | "responded": the call just served, if any
  request,     \* the RecommendRequest of the recommend call just served, or None
  keys,        \* score(sol) of every entry of CATALOG, in CATALOG order, for that call
  response,    \* the list the call returned
  pc,          \* per worker: position inside recommend
  wreq,        \* per worker: req
  wkeywords,   \* per worker: the local set keywords
  wlist,       \* per worker: the new list built by sorted()
  wkeys,       \* per worker: the keys sorted() has computed so far
  wranked,     \* per worker: ranked
  wresponse    \* per worker: the returned list

vars == << catalog, listed, phase, request, keys, response,
           pc, wreq, wkeywords, wlist, wkeys, wranked, wresponse >>
callVars == << request, keys, response >>
workerVars == << pc, wreq, wkeywords, wlist, wkeys, wranked, wresponse >>

\* ------------------------------------------------------------------ bounds
MaxGoals == 2        \* longest goals list drawn
MaxProcesses == 1    \* longest processes list drawn
NumWorkers == 2      \* requests in flight at once

\* ------------------------------------------------------------ string literals
STR_reduce_errors == << "r", "e", "d", "u", "c", "e", "_", "e", "r", "r", "o", "r", "s" >>
STR_save_time == << "s", "a", "v", "e", "_", "t", "i", "m", "e" >>
STR_error == << "e", "r", "r", "o", "r" >>
STR_tempo == << "t", "e", "m", "p", "o" >>
STR_lead_intake == << "l", "e", "a", "d", "_", "i", "n", "t", "a", "k", "e" >>
STR_crm == << "c", "r", "m" >>
STR_Marketing == << "M", "a", "r", "k", "e", "t", "i", "n", "g" >>
STR_email_drip == << "e", "m", "a", "i", "l", " ", "d", "r", "i", "p" >>
STR_Email__CRM == << "E", "m", "a", "i", "l", " ", " ", "C", "R", "M" >>
STR_empty == << >>

\* ------------------------------------------------------------------ catalog
\* main.py:37-45  Solution(id="lead-capture-crm", ...)
LeadCaptureCrm ==
  [ id |-> "lead-capture-crm",
    title |->
      << "A", "c", "q", "u", "i", "s", "i", "z", "i", "o", "n", "e", " ", "l", "e", "a", "d",
         " ", "U+2192", " ", "C", "R", "M" >>,
    category |->
      << "V", "e", "n", "d", "i", "t", "e" >>,
    description |->
      << "R", "a", "c", "c", "o", "g", "l", "i", " ", "i", " ", "l", "e", "a", "d", " ", "d",
         "a", " ", "f", "o", "r", "m", " ", "e", " ", "l", "a", "n", "d", "i", "n", "g", " ",
         "e", " ", "i", "n", "s", "e", "r", "i", "s", "c", "i", "l", "i", " ", "a", "u", "t",
         "o", "m", "a", "t", "i", "c", "a", "m", "e", "n", "t", "e", " ", "n", "e", "l", " ",
         "C", "R", "M", " ", "c", "o", "n", " ", "d", "e", "d", "u", "p", "l", "i", "c", "a",
         "z", "i", "o", "n", "e", " ", "e", " ", "a", "r", "r", "i", "c", "c", "h", "i", "m",
         "e", "n", "t", "o", " ", "d", "a", "t", "i", "." >>,
    impact |->
      << "R", "i", "d", "u", "c", "e", " ", "t", "e", "m", "p", "i", " ", "m", "a", "n", "u",
         "a", "l", "i", " ", "e", " ", "m", "i", "g", "l", "i", "o", "r", "a", " ", "l", "a",
         " ", "q", "u", "a", "l", "i", "t", "U+00E0", " ", "d", "e", "i", " ", "d", "a", "t",
         "i" >>,
    tools |-> << "Webhooks", "Zapier/Make", "HubSpot/Pipedrive" >>,
    complexity |-> "Low" ]

\* main.py:46-54  Solution(id="invoice-automation", ...)
InvoiceAutomation ==
  [ id |-> "invoice-automation",
    title |->
      << "F", "a", "t", "t", "u", "r", "a", "z", "i", "o", "n", "e", " ", "a", "u", "t", "o",
         "m", "a", "t", "i", "c", "a" >>,
    category |->
      << "F", "i", "n", "a", "n", "c", "e" >>,
    description |->
      << "G", "e", "n", "e", "r", "a", " ", "f", "a", "t", "t", "u", "r", "e", " ", "d", "a",
         "i", " ", "c", "o", "n", "t", "r", "a", "t", "t", "i", "/", "o", "r", "d", "i", "n",
         "i", ",", " ", "i", "n", "v", "i", "a", "l", "e", " ", "e", " ", "r", "e", "g", "i",
         "s", "t", "r", "a", " ", "i", " ", "p", "a", "g", "a", "m", "e", "n", "t", "i", " ",
         "c", "o", "n", " ", "r", "i", "c", "o", "n", "c", "i", "l", "i", "a", "z", "i", "o",
         "n", "e", "." >>,
    impact |->
      << "R", "i", "d", "u", "c", "e", " ", "e", "r", "r", "o", "r", "i", " ", "e", " ", "v",
         "e", "l", "o", "c", "i", "z", "z", "a", " ", "i", "l", " ", "c", "a", "s", "h", "-",
         "f", "l", "o", "w" >>,
    tools |-> << "ERP/Conta", "Stripe", "Zapier" >>,
    complexity |-> "Medium" ]

\* main.py:55-63  Solution(id="marketing-drip", ...)
MarketingDrip ==
  [ id |-> "marketing-drip",
    title |->
      << "E", "m", "a", "i", "l", " ", "d", "r", "i", "p", " ", "m", "a", "r", "k", "e", "t",
         "i", "n", "g" >>,
    category |->
      << "M", "a", "r", "k", "e", "t", "i", "n", "g" >>,
    description |->
      << "S", "e", "q", "u", "e", "n", "z", "e", " ", "e", "m", "a", "i", "l", " ", "a", "u",
         "t", "o", "m", "a", "t", "i", "c", "h", "e", " ", "b", "a", "s", "a", "t", "e", " ",
         "s", "u", " ", "c", "o", "m", "p", "o", "r", "t", "a", "m", "e", "n", "t", "o", " ",
         "u", "t", "e", "n", "t", "e", " ", "e", " ", "s", "e", "g", "m", "e", "n", "t", "i",
         "." >>,
    impact |->
      << "A", "u", "m", "e", "n", "t", "a", " ", "c", "o", "n", "v", "e", "r", "s", "i", "o",
         "n", "i", " ", "e", " ", "L", "T", "V" >>,
    tools |-> << "Mailchimp/Customer.io", "Segment", "Webhook" >>,
    complexity |-> "Low" ]

\* main.py:64-72  Solution(id="support-triage", ...)
SupportTriage ==
  [ id |-> "support-triage",
    title |->
      << "S", "m", "i", "s", "t", "a", "m", "e", "n", "t", "o", " ", "t", "i", "c", "k", "e",
         "t", " ", "c", "o", "n", " ", "A", "I" >>,
    category |->
      << "S", "u", "p", "p", "o", "r", "t", "o" >>,
    description |->
      << "C", "l", "a", "s", "s", "i", "f", "i", "c", "a", " ", "a", "u", "t", "o", "m", "a",
         "t", "i", "c", "a", "m", "e", "n", "t", "e", " ", "i", " ", "t", "i", "c", "k", "e",
         "t", " ", "p", "e", "r", " ", "p", "r", "i", "o", "r", "i", "t", "U+00E0", ",", " ",
         "l", "i", "n", "g", "u", "a", " ", "e", " ", "a", "r", "g", "o", "m", "e", "n", "t",
         "o", ",", " ", "a", "s", "s", "e", "g", "n", "a", "n", "d", "o", "l", "i", " ", "a",
         "l", " ", "t", "e", "a", "m", " ", "g", "i", "u", "s", "t", "o", "." >>,
    impact |->
      << "R", "i", "d", "u", "c", "e", " ", "i", " ", "t", "e", "m", "p", "i", " ", "d", "i",
         " ", "r", "i", "s", "p", "o", "s", "t", "a" >>,
    tools |-> << "Helpdesk", "AI classifier", "Webhook" >>,
    complexity |-> "Medium" ]

\* main.py:73-81  Solution(id="ops-dashboard", ...)
OpsDashboard ==
  [ id |-> "ops-dashboard",
    title |->
      << "D", "a", "s", "h", "b", "o", "a", "r", "d", " ", "o", "p", "e", "r", "a", "t", "i",
         "v", "a", " ", "l", "i", "v", "e" >>,
    category |->
      << "O", "p", "e", "r", "a", "z", "i", "o", "n", "i" >>,
    description |->
      << "U", "n", "i", "f", "i", "c", "a", " ", "d", "a", "t", "i", " ", "d", "a", " ", "C",
         "R", "M", ",", " ", "s", "u", "p", "p", "o", "r", "t", "o", " ", "e", " ", "f", "a",
         "t", "t", "u", "r", "a", "z", "i", "o", "n", "e", " ", "i", "n", " ", "u", "n", "'",
         "u", "n", "i", "c", "a", " ", "d", "a", "s", "h", "b", "o", "a", "r", "d", " ", "c",
         "o", "n", " ", "K", "P", "I", " ", "a", "g", "g", "i", "o", "r", "n", "a", "t", "i",
         "." >>,
    impact |->
      << "M", "i", "g", "l", "i", "o", "r", "a", " ", "v", "i", "s", "i", "b", "i", "l", "i",
         "t", "U+00E0", " ", "e", " ", "d", "e", "c", "i", "s", "i", "o", "n", "i" >>,
    tools |-> << "BigQuery", "Metabase/Looker", "ETL" >>,
    complexity |-> "High" ]

\* main.py:36-82
CATALOG == << LeadCaptureCrm, InvoiceAutomation, MarketingDrip, SupportTriage, OpsDashboard >>

\* The slice [:3] of main.py:118
TopN == 3

\* ------------------------------------------------------------ Python built-ins
None == << >>
Some(v) == << v >>

\* str.lower() on one character: the ASCII capitals have a lowercase; every other
\* character of the texts modelled here (small letters, punctuation, U+2192,
\* U+00E0) is its own lowercase.
UpperToLower ==
  [c \in {"A", "B", "C", "D", "E", "F", "G", "H", "I", "J", "K", "L", "M",
          "N", "O", "P", "Q", "R", "S", "T", "U", "V", "W", "X", "Y", "Z"} |->
     CASE c = "A" -> "a" [] c = "B" -> "b" [] c = "C" -> "c" [] c = "D" -> "d"
       [] c = "E" -> "e" [] c = "F" -> "f" [] c = "G" -> "g" [] c = "H" -> "h"
       [] c = "I" -> "i" [] c = "J" -> "j" [] c = "K" -> "k" [] c = "L" -> "l"
       [] c = "M" -> "m" [] c = "N" -> "n" [] c = "O" -> "o" [] c = "P" -> "p"
       [] c = "Q" -> "q" [] c = "R" -> "r" [] c = "S" -> "s" [] c = "T" -> "t"
       [] c = "U" -> "u" [] c = "V" -> "v" [] c = "W" -> "w" [] c = "X" -> "x"
       [] c = "Y" -> "y" [] c = "Z" -> "z"]

LowerChar(c) == IF c \in DOMAIN UpperToLower THEN UpperToLower[c] ELSE c

\* str.lower()
lower(s) == [i \in 1..Len(s) |-> LowerChar(s[i])]

\* the separators of str.split() with no argument
Whitespace == {" ", "\t", "\n"}

\* str.split(): the maximal runs of non-whitespace characters, in order
RECURSIVE SplitFrom(_, _, _)
SplitFrom(s, i, cur) ==
  IF i > Len(s)
    THEN (IF cur = << >> THEN << >> ELSE << cur >>)
    ELSE IF s[i] \in Whitespace
      THEN (IF cur = << >> THEN SplitFrom(s, i + 1, << >>)
                           ELSE << cur >> \o SplitFrom(s, i + 1, << >>))
      ELSE SplitFrom(s, i + 1, Append(cur, s[i]))

split(s) == SplitFrom(s, 1, << >>)

\* set(list)
SetOf(xs) == {xs[i] : i \in 1..Len(xs)}

\* x in list
InList(x, xs) == \E i \in 1..Len(xs) : xs[i] = x

\* sub in s, for two str: true for the empty sub, otherwise sub starts at
\* some place of s (the first character is compared before the rest)
Contains(s, sub) ==
  \/ sub = << >>
  \/ \E i \in 1..(Len(s) - Len(sub) + 1) :
       s[i] = sub[1] /\ SubSeq(s, i, i + Len(sub) - 1) = sub

\* list[::-1]
Reverse(xs) == [i \in 1..Len(xs) |-> xs[Len(xs) + 1 - i]]

\* One step of the insertion sort list.sort runs on a short list: x goes
\* after every element whose key is not greater (stable, ascending).
RECURSIVE Insert(_, _)
Insert(done, x) ==
  IF done = << >> THEN << x >>
  ELSE IF done[Len(done)].key <= x.key
    THEN Append(done, x)
    ELSE Append(Insert(SubSeq(done, 1, Len(done) - 1), x), done[Len(done)])

RECURSIVE StableSortAsc(_)
StableSortAsc(xs) ==
  IF xs = << >> THEN << >>
  ELSE Insert(StableSortAsc(SubSeq(xs, 1, Len(xs) - 1)), xs[Len(xs)])

\* Mutant of sorted_reverse: reverse=True forgotten, the list comes out ascending.
sorted_ascending(list, ks) ==
  LET keyed == [i \in 1..Len(list) |-> [item |-> list[i], key |-> ks[i]]]
      out == StableSortAsc(keyed)
  IN [i \in 1..Len(out) |-> out[i].item]

\* Mutant of sorted_reverse: sorted(...)[::-1], which turns ties around.
sorted_then_reversed(list, ks) ==
  LET keyed == [i \in 1..Len(list) |-> [item |-> list[i], key |-> ks[i]]]
      out == Reverse(StableSortAsc(keyed))
  IN [i \in 1..Len(out) |-> out[i].item]

\* sorted(list, key=..., reverse=True), the keys already computed: list.sort
\* reverses the list, sorts it ascending and stable, and reverses the result.
sorted_reverse(list, ks) ==
  LET keyed == [i \in 1..Len(list) |-> [item |-> list[i], key |-> ks[i]]]
      out == Reverse(StableSortAsc(Reverse(keyed)))
  IN [i \in 1..Len(out) |-> out[i].item]

\* Mutant of Slice: list[:n + 1]
SliceInclusive(xs, n) == SubSeq(xs, 1, IF Len(xs) < n + 1 THEN Len(xs) ELSE n + 1)

\* list[:n]
Slice(xs, n) == SubSeq(xs, 1, IF Len(xs) < n THEN Len(xs) ELSE n)

\* ------------------------------------------------------------------ recommend
\* Mutant of keywords: goals and processes lowercased like the industry.
keywords_lowercase_all(req) ==
  LET industry == IF req.industry = None THEN << >> ELSE req.industry[1]
  IN SetOf(split(lower(industry)))
       \cup {lower(g) : g \in SetOf(req.goals)} \cup {lower(p) : p \in SetOf(req.processes)}

\* main.py:98-100
keywords(req) ==
  LET industry == IF req.industry = None THEN << >> ELSE req.industry[1]
  IN SetOf(split(lower(industry))) \cup SetOf(req.goals) \cup SetOf(req.processes)

\* main.py:103
haystack(sol) ==
  lower(sol.title) \o << " " >> \o lower(sol.category) \o << " " >> \o lower(sol.description)

\* main.py:106  if kw and kw in s
KeywordHits(kw, s) == kw # << >> /\ Contains(s, kw)

\* main.py:104-107
BaseScore(kws, s) == 2 * Cardinality({kw \in kws : KeywordHits(kw, s)})

\* main.py:109-112
GoalBonus(goal, needle, req, s) ==
  IF InList(goal, req.goals) /\ Contains(s, needle) THEN 2 ELSE 0

\* Mutant of TeamBonus: an absent team_size earns no bonus.
TeamBonusNoneExcluded(sol, req) ==
  IF sol.complexity = "Low" /\ req.team_size \in {Some("solo"), Some("small")}
    THEN 1 ELSE 0

\* Mutant of TeamBonus: the complexity is not looked at.
TeamBonusAnyComplexity(sol, req) ==
  IF req.team_size \in {Some("solo"), Some("small"), None} THEN 1 ELSE 0

\* main.py:113-114
TeamBonus(sol, req) ==
  IF sol.complexity = "Low" /\ req.team_size \in {Some("solo"), Some("small"), None}
    THEN 1 ELSE 0

\* main.py:102-115
score(sol, req, kws) ==
  LET s == haystack(sol)
  IN BaseScore(kws, s)
       + GoalBonus(STR_reduce_errors, STR_error, req, s)
       + GoalBonus(STR_save_time, STR_tempo, req, s)
       + TeamBonus(sol, req)

\* the keys sorted() computes at main.py:117, in list order
KeysOf(list, req) ==
  LET kws == keywords(req) IN [i \in 1..Len(list) |-> score(list[i], req, kws)]

\* main.py:117
Ranked(list, req) == sorted_reverse(list, KeysOf(list, req))

\* main.py:96-118, the value returned
recommend_result(list, req) == Slice(Ranked(list, req), TopN)

\* ------------------------------------------------------------------ requests
\* RecommendRequest, main.py:28-32: the values the requests are drawn from
IndustryPool == {None, Some(STR_Marketing), Some(STR_Email__CRM)}
TeamSizePool == {None, Some("solo"), Some("small"), Some("enterprise")}
GoalPool == {STR_reduce_errors, STR_save_time, STR_Marketing, STR_crm}
ProcessPool == {STR_lead_intake, STR_email_drip, STR_empty}

SeqsUpTo(S, n) == UNION {[1..k -> S] : k \in 0..n}

Requests ==
  [industry : IndustryPool, team_size : TeamSizePool,
   goals : SeqsUpTo(GoalPool, MaxGoals), processes : SeqsUpTo(ProcessPool, MaxProcesses)]

Request(industry, team_size, goals, processes) ==
  [industry |-> industry, team_size |-> team_size, goals |-> goals, processes |-> processes]

\* the requests the concurrent workers are given
ConcRequests ==
  { Request(None, None, << >>, << >>),
    Request(None, Some("enterprise"), << STR_crm >>, << >>),
    Request(Some(STR_Marketing), Some("solo"), << STR_save_time >>, << STR_lead_intake >>) }

Workers == 1..NumWorkers

\* ------------------------------------------------------------------ state
Init ==
  /\ catalog = CATALOG
  /\ listed = << >>
  /\ phase = "idle"
  /\ request = None
  /\ keys = << >>
  /\ response = << >>
  /\ pc = [w \in Workers |-> "idle"]
  /\ wreq = [w \in Workers |-> None]
  /\ wkeywords = [w \in Workers |-> {}]
  /\ wlist = [w \in Workers |-> << >>]
  /\ wkeys = [w \in Workers |-> << >>]
  /\ wranked = [w \in Workers |-> << >>]
  /\ wresponse = [w \in Workers |-> << >>]

\* main.py:90-92
list_solutions ==
  /\ phase = "idle"
  /\ phase' = "listed"
  /\ listed' = catalog
  /\ UNCHANGED << catalog, callVars, workerVars >>

\* Mutant of recommend: CATALOG.sort(key=score, reverse=True), in place.
recommend_sort_in_place(req) ==
  /\ phase = "idle"
  /\ phase' = "responded"
  /\ request' = Some(req)
  /\ keys' = KeysOf(catalog, req)
  /\ response' = Slice(sorted_reverse(catalog, keys'), TopN)
  /\ catalog' = sorted_reverse(catalog, keys')
  /\ UNCHANGED << listed, workerVars >>

\* main.py:95-118, one whole call; sorted() builds a new list and leaves
\* CATALOG as it was.
recommend(req) ==
  /\ phase = "idle"
  /\ phase' = "responded"
  /\ request' = Some(req)
  /\ keys' = KeysOf(catalog, req)
  /\ response' = Slice(sorted_reverse(catalog, keys'), TopN)
  /\ catalog' = catalog
  /\ UNCHANGED << listed, workerVars >>

\* main.py:92, 118: the body is sent; the call's locals are gone
respond ==
  /\ phase \in {"listed", "responded"}
  /\ phase' = "idle"
  /\ listed' = << >>
  /\ request' = None
  /\ keys' = << >>
  /\ response' = << >>
  /\ UNCHANGED << catalog, workerVars >>

Next ==
  \/ list_solutions
  \/ \E req \in Requests : recommend(req)
  \/ respond

Spec == Init /\ [][Next]_vars

\* ------------------------------------------------- recommend, step by step
\* main.py:96: a worker takes a request
Receive(w, req) ==
  /\ pc[w] = "idle"
  /\ pc' = [pc EXCEPT ![w] = "keywords"]
  /\ wreq' = [wreq EXCEPT ![w] = Some(req)]
  /\ UNCHANGED << catalog, phase, listed, callVars, wkeywords, wlist, wkeys, wranked, wresponse >>

\* main.py:98-100
BuildKeywords(w) ==
  /\ pc[w] = "keywords"
  /\ wkeywords' = [wkeywords EXCEPT ![w] = keywords(wreq[w][1])]
  /\ pc' = [pc EXCEPT ![w] = "copy"]
  /\ UNCHANGED << catalog, phase, listed, callVars, wreq, wlist, wkeys, wranked, wresponse >>

\* main.py:117: sorted() first copies its argument into a new list
CopyList(w) ==
  /\ pc[w] = "copy"
  /\ wlist' = [wlist EXCEPT ![w] = catalog]
  /\ pc' = [pc EXCEPT ![w] = "key"]
  /\ UNCHANGED << catalog, phase, listed, callVars, wreq, wkeywords, wkeys, wranked, wresponse >>

\* main.py:102-115, 117: one call of the key function, in list order
ComputeKey(w) ==
  /\ pc[w] = "key"
  /\ LET i == Len(wkeys[w]) + 1
     IN /\ wkeys' = [wkeys EXCEPT ![w] =
                       Append(@, score(wlist[w][i], wreq[w][1], wkeywords[w]))]
        /\ pc' = [pc EXCEPT ![w] = IF i = Len(wlist[w]) THEN "sort" ELSE "key"]
  /\ UNCHANGED << catalog, phase, listed, callVars, wreq, wkeywords, wlist, wranked, wresponse >>

\* Mutant of SortList: CATALOG.sort(key=score, reverse=True), in place.
SortListInPlace(w) ==
  /\ pc[w] = "sort"
  /\ wranked' = [wranked EXCEPT ![w] = sorted_reverse(wlist[w], wkeys[w])]
  /\ catalog' = sorted_reverse(wlist[w], wkeys[w])
  /\ pc' = [pc EXCEPT ![w] = "slice"]
  /\ UNCHANGED << phase, listed, callVars, wreq, wkeywords, wlist, wkeys, wresponse >>

\* main.py:117: the new list is sorted; CATALOG is not touched
SortList(w) ==
  /\ pc[w] = "sort"
  /\ wranked' = [wranked EXCEPT ![w] = sorted_reverse(wlist[w], wkeys[w])]
  /\ catalog' = catalog
  /\ pc' = [pc EXCEPT ![w] = "slice"]
  /\ UNCHANGED << phase, listed, callVars, wreq, wkeywords, wlist, wkeys, wresponse >>

\* main.py:118
Return(w) ==
  /\ pc[w] = "slice"
  /\ wresponse' = [wresponse EXCEPT ![w] = Slice(wranked[w], TopN)]
  /\ pc' = [pc EXCEPT ![w] = "done"]
  /\ UNCHANGED << catalog, phase, listed, callVars, wreq, wkeywords, wlist, wkeys, wranked >>

\* the response is sent and the call's locals are dropped
Finish(w) ==
  /\ pc[w] = "done"
  /\ pc' = [pc EXCEPT ![w] = "idle"]
  /\ wreq' = [wreq EXCEPT ![w] = None]
  /\ wkeywords' = [wkeywords EXCEPT ![w] = {}]
  /\ wlist' = [wlist EXCEPT ![w] = << >>]
  /\ wkeys' = [wkeys EXCEPT ![w] = << >>]
  /\ wranked' = [wranked EXCEPT ![w] = << >>]
  /\ wresponse' = [wresponse EXCEPT ![w] = << >>]
  /\ UNCHANGED << catalog, phase, listed, callVars >>

NextConc ==
  \/ list_solutions
  \/ respond
  \/ \E w \in Workers :
       \/ \E req \in ConcRequests : Receive(w, req)
       \/ BuildKeywords(w)
       \/ CopyList(w)
       \/ ComputeKey(w)
       \/ SortList(w)
       \/ Return(w)
       \/ Finish(w)

SpecConc == Init /\ [][NextConc]_vars

\* ===================================================================== claims
\* the place of sol in list (every list here holds distinct records)
IndexIn(list, sol) == CHOOSE i \in 1..Len(list) : list[i] = sol

\* the score the call just served gave to sol
KeyOfSol(sol) == keys[IndexIn(catalog, sol)]

Responded == phase = "responded"

\* the requests of the four scenarios
Scenario1 == Request(None, None, << STR_reduce_errors >>, << >>)
Scenario2 == Request(None, Some("solo"), << >>, << >>)
Scenario3 == Request(None, None, << STR_save_time >>, << STR_lead_intake >>)
Scenario4 == Request(None, None, << >>, << >>)

\* C1: whatever the request, recommend returns exactly min(3, catalog size) = 3
\* entries, pairwise distinct, each a record of the 5-record catalog.
C1_ExactlyThree ==
  Responded =>
    /\ Len(CATALOG) = 5
    /\ Len(response) = (IF Len(CATALOG) < 3 THEN Len(CATALOG) ELSE 3)
    /\ Len(response) = 3
    /\ \A i \in 1..Len(response) : InList(response[i], CATALOG)
    /\ \A i, j \in 1..Len(response) : i # j => response[i] # response[j]

C1_Witness ==
  /\ Responded
  /\ request[1].goals # << >>
  /\ request[1].industry # None
  /\ Len(response) = 3

\* C2: the returned list is in non-increasing score order, and no entry left
\* out scores more than the last entry returned.
C2_TopByScore ==
  Responded =>
    /\ \A a, b \in 1..Len(response) :
         a < b => KeyOfSol(response[a]) >= KeyOfSol(response[b])
    /\ \A i \in 1..Len(catalog) :
         ~InList(catalog[i], response) => keys[i] <= KeyOfSol(response[Len(response)])

C2_Witness ==
  /\ Responded
  /\ \E a, b \in 1..Len(response) :
       a < b /\ KeyOfSol(response[a]) > KeyOfSol(response[b])
  /\ \E i \in 1..Len(catalog) :
       ~InList(catalog[i], response) /\ keys[i] < KeyOfSol(response[Len(response)])

\* C3: two entries of equal score keep their CATALOG order in the output, and
\* of the entries tied at the cut-off the ones returned are the earliest in
\* CATALOG: if the later of two tied entries is returned, so is the earlier,
\* and ahead of it.
C3_StableOnTies ==
  Responded =>
    \A i, j \in 1..Len(CATALOG) :
      (i < j /\ KeyOfSol(CATALOG[i]) = KeyOfSol(CATALOG[j]) /\ InList(CATALOG[j], response))
        => /\ InList(CATALOG[i], response)
           /\ IndexIn(response, CATALOG[i]) < IndexIn(response, CATALOG[j])

C3_Witness ==
  /\ Responded
  /\ \E i, j \in 1..Len(CATALOG) :
       /\ i < j /\ KeyOfSol(CATALOG[i]) = KeyOfSol(CATALOG[j])
       /\ InList(CATALOG[i], response) /\ InList(CATALOG[j], response)
  /\ \E i, j \in 1..Len(CATALOG) :
       /\ i < j /\ KeyOfSol(CATALOG[i]) = KeyOfSol(CATALOG[j])
       /\ InList(CATALOG[i], response) /\ ~InList(CATALOG[j], response)

\* C4: however the steps of the requests in flight interleave, a request that
\* has returned holds what recommend gives for it on the startup catalog when
\* run alone; so two returned calls with the same input hold the same output.
C4_NoInterference ==
  /\ \A w \in Workers :
       pc[w] = "done" => wresponse[w] = recommend_result(CATALOG, wreq[w][1])
  /\ \A v, w \in Workers :
       (pc[v] = "done" /\ pc[w] = "done" /\ wreq[v] = wreq[w])
         => wresponse[v] = wresponse[w]

C4_Witness ==
  \E v, w \in Workers :
    /\ v # w
    /\ pc[v] = "done"
    /\ pc[w] = "key" /\ Len(wkeys[w]) = 2
    /\ wreq[v] # wreq[w]
    /\ wresponse[v] # Slice(CATALOG, TopN)

\* C5: after any sequence of list_solutions and recommend calls CATALOG holds
\* the startup records in the startup order, and every list_solutions body is
\* that full sequence.
C5_CatalogImmutable ==
  /\ catalog = CATALOG
  /\ phase = "listed" => listed = CATALOG

\* a call whose ranking differs from the catalog order has just been served
C5_Witness ==
  /\ Responded
  /\ response[1] # CATALOG[1]
  /\ catalog[1] = CATALOG[1]

\* C6: for goals=["reduce_errors"] and nothing else, invoice-automation has
\* "error" in its haystack, gets the +2 reduce_errors bonus and ranks above
\* every entry whose haystack has no "error".
C6_Scenario1 ==
  (Responded /\ request = Some(Scenario1)) =>
    LET s == haystack(InvoiceAutomation)
        full == sorted_reverse(catalog, keys)
    IN /\ Contains(s, STR_error)
       /\ GoalBonus(STR_reduce_errors, STR_error, request[1], s) = 2
       /\ \A i \in 1..Len(catalog) :
            ~Contains(haystack(catalog[i]), STR_error)
              => IndexIn(full, InvoiceAutomation) < IndexIn(full, catalog[i])

\* C7 as stated: for the empty request no Low-complexity bonus is applied, all
\* five scores are 0 and the first three catalog entries come back in order.
C7_Scenario4_AsStated ==
  (Responded /\ request = Some(Scenario4)) =>
    /\ \A i \in 1..Len(catalog) : TeamBonus(catalog[i], request[1]) = 0
    /\ keys = << 0, 0, 0, 0, 0 >>
    /\ response = << LeadCaptureCrm, InvoiceAutomation, MarketingDrip >>

\* C7 amended: for the empty request the absent team_size earns both Low
\* entries the +1 bonus, the scores are 1, 0, 1, 0, 0, and recommend returns
\* lead-capture-crm, marketing-drip, invoice-automation.
C7_Scenario4 ==
  (Responded /\ request = Some(Scenario4)) =>
    /\ \A i \in 1..Len(catalog) :
         TeamBonus(catalog[i], request[1]) = (IF catalog[i].complexity = "Low" THEN 1 ELSE 0)
    /\ keys = << 1, 0, 1, 0, 0 >>
    /\ response = << LeadCaptureCrm, MarketingDrip, InvoiceAutomation >>

C7_Witness ==
  /\ Responded
  /\ request = Some(Scenario4)
  /\ KeyOfSol(LeadCaptureCrm) = 1

\* C8: for goals=["save_time"], processes=["lead_intake"], lead-capture-crm
\* gains base points from the request keywords found in its haystack and also
\* the +2 save_time bonus, its haystack containing "tempo".
C8_Scenario3 ==
  (Responded /\ request = Some(Scenario3)) =>
    LET s == haystack(LeadCaptureCrm)
    IN /\ BaseScore(keywords(request[1]), s) > 0
       /\ Contains(s, STR_tempo)
       /\ GoalBonus(STR_save_time, STR_tempo, request[1], s) = 2
       /\ KeyOfSol(LeadCaptureCrm) >= 4

\* C9: for team_size="solo" and nothing else, exactly lead-capture-crm and
\* marketing-drip get the +1 bonus, both are returned ahead of every entry
\* that is not Low, and ops-dashboard is not among the three returned.
C9_Scenario2 ==
  (Responded /\ request = Some(Scenario2)) =>
    /\ \A i \in 1..Len(catalog) :
         keys[i] = (IF catalog[i].id \in {"lead-capture-crm", "marketing-drip"} THEN 1 ELSE 0)
    /\ InList(LeadCaptureCrm, response) /\ InList(MarketingDrip, response)
    /\ \A a, b \in 1..Len(response) :
         (response[a].complexity = "Low" /\ response[b].complexity # "Low") => a < b
    /\ OpsDashboard.complexity = "High"
    /\ ~InList(OpsDashboard, response)

C9_Witness ==
  /\ Responded
  /\ request = Some(Scenario2)
  /\ response[2] = MarketingDrip

\* C10: industry is lowercased and split into words, goals and processes are
\* taken as they are.  So the base points of an entry (its score less the
\* bonuses) are 2 for each distinct non-empty string, among the lowercased
\* words of industry and the goals and processes that have no capital letter,
\* that occurs in the entry's haystack; a goal or process with a capital
\* letter hits no haystack, and the empty string counts for nothing.
C10_KeywordAsymmetry ==
  Responded =>
    LET req == request[1]
        words == IF req.industry = None THEN {} ELSE SetOf(split(req.industry[1]))
        literals == SetOf(req.goals) \cup SetOf(req.processes)
        counted == {lower(w) : w \in words} \cup {g \in literals : g = lower(g)}
        Bonus(sol, s) == GoalBonus(STR_reduce_errors, STR_error, req, s)
                           + GoalBonus(STR_save_time, STR_tempo, req, s)
                           + TeamBonus(sol, req)
    IN \A i \in 1..Len(catalog) :
         LET s == haystack(catalog[i])
         IN /\ keys[i] - Bonus(catalog[i], s) =
                 2 * Cardinality({k \in counted : k # << >> /\ Contains(s, k)})
            /\ \A g \in literals : g # lower(g) => ~Contains(s, g)

\* "Marketing" given as a goal: marketing-drip has "marketing" in its haystack
\* and still scores nothing.
C10_Witness ==
  /\ Responded
  /\ request = Some(Request(None, Some("enterprise"), << STR_Marketing >>, << STR_empty >>))
  /\ Contains(haystack(MarketingDrip), lower(STR_Marketing))
  /\ KeyOfSol(MarketingDrip) = 0

====
